---- MODULE Spec2Model ----
(***************************************************************************)
(* Model of fastapi_rest_utils: RestRouter.register_viewset (router.py),   *)
(* the RouteConfigDict records it reads (protocols.py) and the two         *)
(* dependency-injector factories exercised by tests/test_deps.py.          *)
(*                                                                         *)
(* Strings that are concatenated (prefix, path) are sequences of           *)
(* one-character strings.  An optional value (Python None / absent) is     *)
(* the empty sequence, a present value v is <<v>>.  A Python dict is a     *)
(* function whose DOMAIN is the set of keys that are present.              *)
(***************************************************************************)
EXTENDS Integers, Sequences, FiniteSets, TLC

MaxCalls == 2
MaxInjectors == 3

None == <<>>
Some(v) == <<v>>

(* dict.get(key, default) *)
Get(d, k, default) == IF k \in DOMAIN d THEN d[k] ELSE default

(* dict without key k: the dict left behind by dict.pop(k, ...) *)
Without(d, k) == [x \in (DOMAIN d) \ {k} |-> d[x]]

---------------------------------------------------------------------------
(* Route descriptors (RouteConfigDict).  path, method, endpoint_name and   *)
(* response_model are required keys, every other key is optional.          *)

ListRoute ==
    [path |-> <<"/">>, method |-> "GET", endpoint_name |-> "list",
     response_model |-> "ItemList"]

CreateRoute ==
    [path |-> <<"/">>, method |-> "POST", endpoint_name |-> "create",
     response_model |-> "Item",
     openapi_extra |-> [requestBody |-> "ItemCreate"]]

RetrieveRoute ==
    [path |-> <<"/", "i">>, method |-> "GET", endpoint_name |-> "retrieve",
     response_model |-> "Item",
     dependencies |-> <<"auth">>, tags |-> <<"own">>,
     name |-> "n", summary |-> "s", description |-> "d",
     deprecated |-> TRUE, include_in_schema |-> FALSE,
     kwargs |-> [status_code |-> 201]]

UpdateRoute ==
    [path |-> <<>>, method |-> "PUT", endpoint_name |-> "update",
     response_model |-> "Item",
     dependencies |-> <<"auth", "db">>,
     openapi_extra |-> [requestBody |-> "ItemUpdate"]]

DeleteRoute ==
    [path |-> <<"/", "i">>, method |-> "DELETE", endpoint_name |-> "delete",
     response_model |-> "Empty", dependencies |-> <<"db">>]

(* A viewset class: the attributes an instance has and the list its        *)
(* routes_config() returns.                                                *)
Viewsets ==
    [Empty  |-> [attrs  |-> {"list"},
                 routes |-> <<>>],
     Mock   |-> [attrs  |-> {"list", "create"},
                 routes |-> <<ListRoute, CreateRoute>>],
     Model  |-> [attrs  |-> {"list", "create", "retrieve", "update", "delete"},
                 routes |-> <<RetrieveRoute, UpdateRoute, ListRoute, DeleteRoute>>],
     NoUpd  |-> [attrs  |-> {"list", "retrieve", "delete"},
                 routes |-> <<DeleteRoute, RetrieveRoute, UpdateRoute, ListRoute>>],
     NoList |-> [attrs  |-> {"create"},
                 routes |-> <<ListRoute, CreateRoute>>]]

ViewsetNames == DOMAIN Viewsets

(* The arguments of a register_viewset call besides the viewset class:     *)
(* prefix, tags (None when omitted) and the keyword overrides.  The first  *)
(* is the call made by tests/test_router.py.                               *)
CallArgs ==
    {[prefix |-> <<"/", "m">>,      tags |-> None,
      kwargs |-> <<>>],
     [prefix |-> <<"/", "m", "/">>, tags |-> Some(<<"t">>),
      kwargs |-> [dependencies |-> <<"auth">>]],
     [prefix |-> <<>>,              tags |-> Some(<<"t", "u">>),
      kwargs |-> [dependencies |-> <<"db", "log">>, summary |-> "S"]],
     [prefix |-> <<"/", "m">>,      tags |-> None,
      kwargs |-> [summary |-> "S"]]}

---------------------------------------------------------------------------
VARIABLES
    routes,         \* the router's route table (APIRouter.routes)
    pc,             \* position inside register_viewset
    calls,          \* number of register_viewset calls started
    viewset_class,  \* argument: name of the viewset class
    prefix,         \* argument
    tags,           \* argument
    kwargs,         \* the call's **kwargs dict (local to the call)
    caller_kwargs,  \* the keyword arguments as the caller holds them
    kwargs_before,  \* the keyword arguments as they were when the call began
    routes_config,  \* local: list returned by viewset.routes_config()
    config_reads,   \* how often routes_config() was invoked in this call
    i,              \* loop index into routes_config (1-based)
    routes_before,  \* route table when the call started
    error,          \* exception the call ended with, None if none
    injectors       \* callables produced by the dependency helpers

vars == <<routes, pc, calls, viewset_class, prefix, tags, kwargs,
          caller_kwargs, kwargs_before, routes_config, config_reads, i, routes_before,
          error, injectors>>

Init ==
    /\ routes = <<>>
    /\ pc = "idle"
    /\ calls = 0
    /\ viewset_class = "Empty"
    /\ prefix = <<>>
    /\ tags = None
    /\ kwargs = <<>>
    /\ caller_kwargs = <<>>
    /\ kwargs_before = <<>>
    /\ routes_config = <<>>
    /\ config_reads = 0
    /\ i = 1
    /\ routes_before = <<>>
    /\ error = None
    /\ injectors = <<>>


---------------------------------------------------------------------------
(* Pieces of one iteration of the loop of register_viewset.                *)

(* dict.get(key): Some(value), or None when the key is absent *)
GetOpt(d, k) == IF k \in DOMAIN d THEN Some(d[k]) ELSE None

(* Variant: getattr(viewset, name, None) never raises. *)
HasAttr_Default(v, name) == TRUE

(* hasattr(viewset, name) for an instance of class v *)
HasAttr(v, name) == name \in Viewsets[v].attrs

(* getattr(viewset, route_config['endpoint_name']): the bound method *)
Endpoint(v, route_config) ==
    [self |-> v, name |-> route_config.endpoint_name]

(* Variant: the join collapses a doubled slash (urljoin-like). *)
Path_Normalised(p, route_config) ==
    IF /\ p # <<>> /\ route_config.path # <<>>
       /\ p[Len(p)] = "/" /\ route_config.path[1] = "/"
    THEN p \o Tail(route_config.path)
    ELSE p \o route_config.path

(* f"{prefix}{route_config['path']}" *)
Path(p, route_config) == p \o route_config.path

(* route_config.get('dependencies', []) *)
RouteDependencies(route_config) == Get(route_config, "dependencies", <<>>)

(* kwargs.pop("dependencies", []): the value returned ... *)
KwargsDependencies(kw) == Get(kw, "dependencies", <<>>)

(* ... and the dict it leaves behind *)
KwargsAfterPop(kw) == Without(kw, "dependencies")

(* Variant: route_dependencies += kwargs_dependencies extends the left     *)
(* operand in place.                                                       *)
ListAdd_InPlace(a, b) == [result |-> a \o b, left |-> a \o b, right |-> b]

(* route_dependencies + kwargs_dependencies: list.__add__ builds a new     *)
(* list (result) and leaves both operands as they were (left, right).      *)
ListAdd(a, b) == [result |-> a \o b, left |-> a, right |-> b]

(* route_config.get('response_model') *)
ResponseModel(route_config) == GetOpt(route_config, "response_model")

(* Variant: route_config.get('openapi_extra', {}) *)
OpenapiExtra_EmptyDefault(route_config) ==
    IF "openapi_extra" \in DOMAIN route_config
    THEN Some(route_config.openapi_extra)
    ELSE Some(<<>>)

(* route_config.get('openapi_extra') *)
OpenapiExtra(route_config) == GetOpt(route_config, "openapi_extra")

(* Variant: the descriptor's own tags win over the argument. *)
Tags_FromDescriptor(t, route_config) ==
    IF "tags" \in DOMAIN route_config THEN Some(route_config.tags) ELSE t

(* tags=tags: the tags argument of register_viewset, whatever the          *)
(* descriptor says.                                                        *)
Tags(t, route_config) == t

(* methods=[route_config['method']] *)
Methods(route_config) == <<route_config.method>>

(* The keyword arguments of the add_api_route call of one iteration. *)
RouteArgs(v, p, t, kw, route_config) ==
    [path           |-> Path(p, route_config),
     endpoint       |-> Endpoint(v, route_config),
     methods        |-> Methods(route_config),
     tags           |-> Tags(t, route_config),
     response_model |-> ResponseModel(route_config),
     openapi_extra  |-> OpenapiExtra(route_config),
     dependencies   |-> ListAdd(RouteDependencies(route_config),
                                KwargsDependencies(kw)).result,
     kwargs         |-> KwargsAfterPop(kw)]

(* Variant: a route with the same path and methods replaces the old one. *)
AddApiRoute_Dedup(table, args) ==
    IF \E k \in 1..Len(table) :
           table[k].path = args.path /\ table[k].methods = args.methods
    THEN [k \in 1..Len(table) |->
              IF table[k].path = args.path /\ table[k].methods = args.methods
              THEN args ELSE table[k]]
    ELSE Append(table, args)

(* Variant: the new route is inserted at the front of the table. *)
AddApiRoute_Prepend(table, args) == <<args>> \o table

(* APIRouter.add_api_route: one route holding the call's arguments is      *)
(* appended to the route table.                                            *)
AddApiRoute(table, args) == Append(table, args)

(* The descriptor as the loop body leaves it: 'dependencies', when         *)
(* present, is the left operand of the list addition.                      *)
DescriptorAfter(kw, route_config) ==
    IF "dependencies" \in DOMAIN route_config
    THEN [route_config EXCEPT !.dependencies =
              ListAdd(route_config.dependencies, KwargsDependencies(kw)).left]
    ELSE route_config

(* The caller's keyword arguments as the loop body leaves them: the        *)
(* caller's 'dependencies' list is the right operand of the addition.      *)
CallerKwargsAfter(ckw, route_config) ==
    IF "dependencies" \in DOMAIN ckw
    THEN [ckw EXCEPT !.dependencies =
              ListAdd(RouteDependencies(route_config), ckw.dependencies).right]
    ELSE ckw

---------------------------------------------------------------------------
(* register_viewset, lines 30-31: construct the viewset, read its routes.  *)
Begin(v, p, t, kw) ==
    /\ pc = "idle"
    /\ calls < MaxCalls
    /\ calls' = calls + 1
    /\ viewset_class' = v
    /\ prefix' = p
    /\ tags' = t
    /\ kwargs' = kw
    /\ caller_kwargs' = kw
    /\ kwargs_before' = kw
    /\ routes_config' = Viewsets[v].routes
    /\ config_reads' = 1
    /\ i' = 1
    /\ routes_before' = routes
    /\ error' = None
    /\ pc' = "loop"
    /\ UNCHANGED <<routes, injectors>>

(* One iteration of the for loop, lines 33-52, handler attribute present.  *)
Iterate ==
    /\ pc = "loop"
    /\ i <= Len(routes_config)
    /\ HasAttr(viewset_class, routes_config[i].endpoint_name)
    /\ routes' = AddApiRoute(routes,
                    RouteArgs(viewset_class, prefix, tags, kwargs,
                              routes_config[i]))
    /\ routes_config' = [routes_config EXCEPT
                            ![i] = DescriptorAfter(kwargs, routes_config[i])]
    /\ caller_kwargs' = IF "dependencies" \in DOMAIN kwargs
                        THEN CallerKwargsAfter(caller_kwargs, routes_config[i])
                        ELSE caller_kwargs
    /\ kwargs' = KwargsAfterPop(kwargs)
    /\ i' = i + 1
    /\ UNCHANGED <<pc, calls, viewset_class, prefix, tags, kwargs_before,
                   config_reads, routes_before, error, injectors>>

(* Variant: the failing call undoes the routes it had added. *)
IterateAttributeError_Rollback ==
    /\ pc = "loop"
    /\ i <= Len(routes_config)
    /\ ~(routes_config[i].endpoint_name \in Viewsets[viewset_class].attrs)
    /\ error' = Some("AttributeError")
    /\ pc' = "idle"
    /\ routes' = routes_before
    /\ UNCHANGED <<calls, viewset_class, prefix, tags, kwargs,
                   caller_kwargs, kwargs_before, routes_config, config_reads,
                   i, routes_before, injectors>>

(* Line 34: getattr raises AttributeError, the call ends there.            *)
IterateAttributeError ==
    /\ pc = "loop"
    /\ i <= Len(routes_config)
    /\ ~HasAttr(viewset_class, routes_config[i].endpoint_name)
    /\ error' = Some("AttributeError")
    /\ pc' = "idle"
    /\ UNCHANGED <<routes, calls, viewset_class, prefix, tags, kwargs,
                   caller_kwargs, kwargs_before, routes_config, config_reads,
                   i, routes_before, injectors>>

(* The loop is exhausted: register_viewset returns None.                   *)
Return ==
    /\ pc = "loop"
    /\ i > Len(routes_config)
    /\ pc' = "idle"
    /\ UNCHANGED <<routes, calls, viewset_class, prefix, tags, kwargs,
                   caller_kwargs, kwargs_before, routes_config, config_reads,
                   i, routes_before, error, injectors>>

---------------------------------------------------------------------------
(* Dependency-injection helpers (fastapi_rest_utils.deps).  A produced     *)
(* callable is described by its parameter list: each parameter has a name  *)
(* and, for a nested dependency, the provider it Depends on.               *)

Providers == {"get_session", "get_user", "mock"}

(* Variant: the produced callable takes the nested dependency only. *)
db_dep_injector_NoRequest(session_dependency) ==
    [factory    |-> "db_dep_injector",
     parameters |-> <<[name |-> "db", depends |-> Some(session_dependency)]>>]

(* db_dep_injector(session_dependency): the request plus a nested          *)
(* dependency on the wrapped session provider.                             *)
db_dep_injector(session_dependency) ==
    [factory    |-> "db_dep_injector",
     parameters |-> <<[name |-> "request", depends |-> None],
                      [name |-> "db", depends |-> Some(session_dependency)]>>]

(* auth_dep_injector(user_dependency): the request plus a nested           *)
(* dependency on the wrapped user provider.                                *)
auth_dep_injector(user_dependency) ==
    [factory    |-> "auth_dep_injector",
     parameters |-> <<[name |-> "request", depends |-> None],
                      [name |-> "user", depends |-> Some(user_dependency)]>>]

DbDepInjector(provider) ==
    /\ Len(injectors) < MaxInjectors
    /\ injectors' = Append(injectors, db_dep_injector(provider))
    /\ UNCHANGED <<routes, pc, calls, viewset_class, prefix, tags, kwargs,
                   caller_kwargs, kwargs_before, routes_config, config_reads,
                   i, routes_before, error>>

AuthDepInjector(provider) ==
    /\ Len(injectors) < MaxInjectors
    /\ injectors' = Append(injectors, auth_dep_injector(provider))
    /\ UNCHANGED <<routes, pc, calls, viewset_class, prefix, tags, kwargs,
                   caller_kwargs, kwargs_before, routes_config, config_reads,
                   i, routes_before, error>>

NextDeps ==
    \/ \E provider \in Providers : DbDepInjector(provider)
    \/ \E provider \in Providers : AuthDepInjector(provider)

SpecDeps == Init /\ [][NextDeps]_vars

---------------------------------------------------------------------------
Next ==
    \/ \E v \in ViewsetNames, a \in CallArgs :
           Begin(v, a.prefix, a.tags, a.kwargs)
    \/ Iterate
    \/ IterateAttributeError
    \/ Return

Spec == Init /\ [][Next]_vars

---------------------------------------------------------------------------
(* Vocabulary of the properties.                                           *)

(* The descriptors as the viewset class declares them. *)
Declared == Viewsets[viewset_class].routes

(* The routes the current (or last) call has added so far. *)
Added == SubSeq(routes, Len(routes_before) + 1, Len(routes))

(* The call has ended, by return or by exception. *)
Ended == pc = "idle" /\ calls > 0

(* Indices of the declared descriptors whose handler attribute is missing. *)
Missing ==
    {k \in 1..Len(Declared) :
        Declared[k].endpoint_name \notin Viewsets[viewset_class].attrs}

FirstMissing == CHOOSE k \in Missing : \A m \in Missing : k <= m

DeclaredDependencies(k) ==
    IF "dependencies" \in DOMAIN Declared[k]
    THEN Declared[k].dependencies ELSE <<>>

SuppliedDependencies ==
    IF "dependencies" \in DOMAIN kwargs_before
    THEN kwargs_before.dependencies ELSE <<>>

IsPrefixOf(s, t) == Len(s) <= Len(t) /\ SubSeq(t, 1, Len(s)) = s

---------------------------------------------------------------------------
(* C1: for every descriptor, the first and the later ones alike, the       *)
(* dependency list passed to add_api_route is the descriptor's own list    *)
(* followed by the caller-supplied list, duplicates kept.                  *)
C1_MergedDependencies ==
    \A k \in 1..Len(Added) :
        /\ Added[k].dependencies = DeclaredDependencies(k) \o SuppliedDependencies
        /\ Len(Added[k].dependencies) =
               Len(DeclaredDependencies(k)) + Len(SuppliedDependencies)

(* C2: a call on a viewset with N descriptors, all naming existing         *)
(* handlers, returns without error with exactly N routes added.            *)
C2_AddsExactlyN ==
    (Ended /\ Missing = {}) =>
        /\ error = None
        /\ Len(routes) = Len(routes_before) + Len(Declared)

C2_Witness ==
    /\ Ended /\ Missing = {} /\ calls = 2
    /\ Len(Declared) = 4 /\ Len(routes_before) = 2
    /\ Len(routes) = 6

(* C3: the path handed to add_api_route is the prefix immediately          *)
(* followed by the descriptor's path, nothing inserted or collapsed, and   *)
(* the methods are exactly the descriptor's one method.                    *)
C3_PathVerbatim ==
    \A k \in 1..Len(Added) :
        /\ Added[k].path = prefix \o Declared[k].path
        /\ Len(Added[k].path) = Len(prefix) + Len(Declared[k].path)
        /\ Added[k].methods = <<Declared[k].method>>

C3_Witness ==
    /\ Ended /\ prefix = <<"/", "m", "/">> /\ Len(Added) = 2
    /\ Added[2].path = <<"/", "m", "/", "/">>
    /\ Added[2].methods = <<"POST">>

(* C4: the route of a descriptor carries that descriptor's openapi_extra   *)
(* unmodified, and none when the descriptor has none.                      *)
C4_OpenapiExtraForwarded ==
    \A k \in 1..Len(Added) :
        IF "openapi_extra" \in DOMAIN Declared[k]
        THEN Added[k].openapi_extra = <<Declared[k].openapi_extra>>
        ELSE Added[k].openapi_extra = None

C4_Witness ==
    /\ Ended /\ viewset_class = "Mock" /\ Len(Added) = 2
    /\ Added[1].openapi_extra = None
    /\ Added[2].openapi_extra = <<[requestBody |-> "ItemCreate"]>>

(* C5: when a descriptor names a missing handler attribute the call ends   *)
(* with AttributeError at the first such descriptor, and no route exists   *)
(* for it or for any descriptor after it.                                  *)
C5_AttributeErrorStops ==
    (Ended /\ Missing # {}) =>
        /\ error = <<"AttributeError">>
        /\ i = FirstMissing
        /\ Len(Added) < FirstMissing
        /\ \A k \in 1..Len(Added) :
               Added[k].endpoint.name = Declared[k].endpoint_name

C5_Witness ==
    /\ Ended /\ viewset_class = "NoUpd"
    /\ error = <<"AttributeError">> /\ i = 3

(* C6: no rollback: after a failure at the k-th descriptor the table is    *)
(* the table before the call followed by the routes of descriptors         *)
(* 1..k-1, so it has grown by exactly k-1.                                 *)
C6_NoRollback ==
    (Ended /\ error # None) =>
        /\ Len(routes) = Len(routes_before) + (i - 1)
        /\ IsPrefixOf(routes_before, routes)
        /\ \A k \in 1..(i - 1) :
               routes[Len(routes_before) + k].endpoint.name
                   = Declared[k].endpoint_name

C6_Witness ==
    /\ Ended /\ error # None /\ i = 3
    /\ Len(routes_before) > 0
    /\ Len(routes) = Len(routes_before) + 2

(* C7: a callable produced by db_dep_injector has parameters named         *)
(* request and db, one produced by auth_dep_injector has parameters named  *)
(* request and user.                                                       *)
C7_InjectorParameters ==
    \A k \in 1..Len(injectors) :
        LET names == {injectors[k].parameters[m].name :
                          m \in 1..Len(injectors[k].parameters)}
        IN  /\ injectors[k].factory = "db_dep_injector"
                => {"request", "db"} \subseteq names
            /\ injectors[k].factory = "auth_dep_injector"
                => {"request", "user"} \subseteq names

C7_Witness ==
    /\ Len(injectors) = 2
    /\ injectors[1].factory = "db_dep_injector"
    /\ injectors[2].factory = "auth_dep_injector"

(* C8: routes_config() is invoked once per call, and the descriptors and   *)
(* the caller's keyword arguments hold the contents they had when the      *)
(* call began.                                                             *)
C8_InputsReadOnly ==
    calls > 0 =>
        /\ config_reads = 1
        /\ routes_config = Declared
        /\ caller_kwargs = kwargs_before

C8_Witness ==
    /\ Ended /\ error = None /\ viewset_class = "Model"
    /\ "dependencies" \in DOMAIN kwargs_before
    /\ Len(Added) = 4

(* C9: the route table is append-only and order-preserving: a step either  *)
(* leaves it alone or appends one route, the route of the descriptor the   *)
(* loop is at.                                                             *)
C9_AppendOnly ==
    [][ \/ routes' = routes
        \/ /\ Len(routes') = Len(routes) + 1
           /\ IsPrefixOf(routes, routes')
           /\ routes'[Len(routes')].endpoint.name
                  = Declared[i].endpoint_name
           /\ routes'[Len(routes')].methods = <<Declared[i].method>> ]_vars

C9_Witness ==
    /\ Ended /\ calls = 2 /\ Len(routes) = 4
    /\ routes[1] = routes[3] /\ routes[2] = routes[4]

====
